---- MODULE Spec2Model ----
(***************************************************************************)
(* Model of custom_components/adax2/climate.py: the Adax API client        *)
(* (AdaxAPI), the per-room climate entity (AdaxClimate) and the platform   *)
(* set-up (setup_platform).                                                *)
(*                                                                         *)
(* Python values are tagged records, so that Python's truthiness, `is      *)
(* None`, float() and int() are computed as the interpreter computes them. *)
(* A float is the double nearest to the rational num/den, kept in lowest   *)
(* terms.  The sampled arguments are dyadic (den divides 8), for which     *)
(* float(t) * 100 is exact in binary floating point; wire values are       *)
(* integers, for which float(w) / 100.0 is the double nearest to w/100.    *)
(***************************************************************************)
EXTENDS Integers, Sequences, FiniteSets, TLC

VARIABLES api, device, entities, call, prev

vars == <<api, device, entities, call, prev>>

----------------------------------------------------------------------------
(* Python values *)

PyNone == [t |-> "None"]
PyStr(s) == [t |-> "str", v |-> s]
PyInt(i) == [t |-> "int", v |-> i]
PyBool(b) == [t |-> "bool", v |-> b]
PyList(l) == [t |-> "list", v |-> l]

Abs(n) == IF n < 0 THEN -n ELSE n

RECURSIVE Gcd(_, _)
Gcd(a, b) == IF b = 0 THEN a ELSE Gcd(b, a % b)

\* the float num/den (den > 0), in lowest terms
PyFloat(num, den) ==
    LET g == Gcd(Abs(num), den)
    IN  [t |-> "float", num |-> num \div g, den |-> den \div g]

\* bool(x): None, "", 0, 0.0, [] and {} are false
Truthy(x) ==
    CASE x.t = "None" -> FALSE
      [] x.t = "str" -> x.v # ""
      [] x.t = "int" -> x.v # 0
      [] x.t = "bool" -> x.v
      [] x.t = "float" -> x.num # 0
      [] x.t = "list" -> x.v # <<>>

\* float(x) raises TypeError on None and ValueError on a non-numeric string
CanFloat(x) == x.t \in {"int", "float"}

ToFloat(x) == IF x.t = "int" THEN PyFloat(x.v, 1) ELSE x

\* int(): truncation toward zero
TruncDiv(a, b) == IF a >= 0 THEN a \div b ELSE -((-a) \div b)

\* int(float(temperature) * 100)
ToHundredths(temperature) ==
    LET f == ToFloat(temperature)
    IN  PyInt(TruncDiv(f.num * 100, f.den))

\* float(w) / 100.0
FromHundredths(w) ==
    LET f == ToFloat(w)
    IN  PyFloat(f.num, f.den * 100)

\* dict.get(key, default)
DictGet(d, key, default) == IF key \in DOMAIN d THEN d[key] ELSE default

----------------------------------------------------------------------------
(* Bounds and sampled inputs *)

\* longest "rooms" array the server returns
MaxRooms == 2

HVAC_MODE_HEAT == "heat"

ConfigTokens == {PyNone, PyStr(""), PyStr("tokA")}
ClientIds == {PyNone, PyStr("user")}
ClientPasswords == {PyNone, PyStr("pw")}

\* access tokens the auth endpoint hands out
ServerTokens == {"tokB", "tokC"}

\* room objects of the content response ("name", "temperature" and
\* "targetTemperature" are optional; a JSON null is PyNone)
Rooms ==
    { [id |-> PyInt(5), temperature |-> PyInt(2137), targetTemperature |-> PyInt(2200)],
      [id |-> PyInt(5), targetTemperature |-> PyInt(1850)],
      [id |-> PyInt(5), temperature |-> PyNone, targetTemperature |-> PyInt(2200)],
      [id |-> PyInt(0), name |-> PyStr("Hall"), temperature |-> PyInt(1900), targetTemperature |-> PyNone] }

RoomLists == UNION { [1..n -> Rooms] : n \in 0..MaxRooms }

RoomIdArgs == {PyInt(5), PyInt(0)}

\* the "temperature" argument: absent, non-numeric, 0, 21.375
Temperatures == {PyNone, PyStr("abc"), PyInt(0), PyFloat(171, 8)}

\* Outcome of sanction's request_token: an exception, or an access token.
\* The auth endpoint never grants a token to a request without credentials.
ExchangeFailed == [ok |-> FALSE, access_token |-> PyNone]

ExchangeOutcomes(a) ==
    {ExchangeFailed} \cup
    IF Truthy(a.client_id) /\ Truthy(a.client_password)
    THEN {[ok |-> TRUE, access_token |-> PyStr(tok)] : tok \in ServerTokens}
    ELSE {}

\* Outcome of requests.get + raise_for_status + json: an exception, or the
\* decoded object (without "rooms", with "rooms": null, with a rooms array).
ResponseFailed == [ok |-> FALSE, data |-> <<>>]

ContentResponses ==
    {ResponseFailed} \cup
    {[ok |-> TRUE, data |-> d] :
        d \in {<<>>, [rooms |-> PyNone]} \cup {[rooms |-> PyList(l)] : l \in RoomLists}}

\* Outcome of requests.post + raise_for_status
ControlResponses == {ResponseFailed, [ok |-> TRUE, data |-> <<>>]}

----------------------------------------------------------------------------
(* AdaxAPI *)

NoObject == [t |-> "unconstructed"]

\* what one call did: token exchanges, HTTP requests, return value, and
\* whether an exception left the call
Outcome(a, exchanges, requests, result, raised) ==
    [api |-> a, exchanges |-> exchanges, requests |-> requests,
     result |-> result, raised |-> raised]

\* refresh_token that keeps a token the client already holds
refresh_token_KeepsHeldToken(a, ex) ==
    Outcome([a EXCEPT !.token = IF Truthy(a.token) THEN a.token
                                ELSE IF ex.ok THEN ex.access_token ELSE PyNone],
            <<[username |-> a.client_id, password |-> a.client_password,
               ok |-> ex.ok, access_token |-> ex.access_token]>>,
            <<>>, PyNone, FALSE)

\* AdaxAPI.refresh_token
refresh_token(a, ex) ==
    Outcome([a EXCEPT !.token = IF ex.ok THEN ex.access_token ELSE PyNone],
            <<[username |-> a.client_id, password |-> a.client_password,
               ok |-> ex.ok, access_token |-> ex.access_token]>>,
            <<>>, PyNone, FALSE)

\* the refresh condition without the credential test
NeedsRefresh_NoCredentialCheck(a) == ~Truthy(a.token)

\* the refresh condition without the token test
NeedsRefresh_IgnoresToken(a) == Truthy(a.client_id) /\ Truthy(a.client_password)

\* `not self._token and self._client_id and self._client_password`
NeedsRefresh(a) ==
    ~Truthy(a.token) /\ Truthy(a.client_id) /\ Truthy(a.client_password)

\* the lazy refresh that opens get_rooms and set_temperature
EnsureToken(a, ex) ==
    IF NeedsRefresh(a) THEN refresh_token(a, ex)
    ELSE Outcome(a, <<>>, <<>>, PyNone, FALSE)

\* AdaxAPI.__init__
AdaxAPI_init(token, client_id, client_password, ex) ==
    EnsureToken([token |-> token, client_id |-> client_id,
                 client_password |-> client_password], ex)

\* get_rooms without the `if not self._token` return
get_rooms_NoTokenCheck(a, ex, resp) ==
    LET r == IF ~Truthy(a.token) /\ Truthy(a.client_id) /\ Truthy(a.client_password)
             THEN refresh_token(a, ex) ELSE Outcome(a, <<>>, <<>>, PyNone, FALSE)
    IN  Outcome(r.api, r.exchanges,
                <<[method |-> "GET", path |-> "/rest/v1/content/",
                   auth |-> r.api.token, json |-> PyNone, ok |-> resp.ok]>>,
                IF resp.ok THEN DictGet(resp.data, "rooms", PyList(<<>>))
                ELSE PyList(<<>>),
                FALSE)

\* get_rooms that drops the token when the content request fails
get_rooms_DropsTokenOnError(a, ex, resp) ==
    LET r == IF ~Truthy(a.token) /\ Truthy(a.client_id) /\ Truthy(a.client_password)
             THEN refresh_token(a, ex) ELSE Outcome(a, <<>>, <<>>, PyNone, FALSE)
    IN  IF ~Truthy(r.api.token)
        THEN Outcome(r.api, r.exchanges, <<>>, PyList(<<>>), FALSE)
        ELSE Outcome(IF resp.ok THEN r.api ELSE [r.api EXCEPT !.token = PyNone],
                     r.exchanges,
                     <<[method |-> "GET", path |-> "/rest/v1/content/",
                        auth |-> r.api.token, json |-> PyNone, ok |-> resp.ok]>>,
                     IF resp.ok THEN DictGet(resp.data, "rooms", PyList(<<>>))
                     ELSE PyList(<<>>),
                     FALSE)

\* AdaxAPI.get_rooms
get_rooms(a, ex, resp) ==
    LET r == EnsureToken(a, ex)
    IN  IF ~Truthy(r.api.token)
        THEN Outcome(r.api, r.exchanges, <<>>, PyList(<<>>), FALSE)
        ELSE Outcome(r.api, r.exchanges,
                     <<[method |-> "GET", path |-> "/rest/v1/content/",
                        auth |-> r.api.token, json |-> PyNone, ok |-> resp.ok]>>,
                     IF resp.ok THEN DictGet(resp.data, "rooms", PyList(<<>>))
                     ELSE PyList(<<>>),
                     FALSE)

\* AdaxAPI.set_temperature
AdaxAPI_set_temperature(a, room_id, temperature, ex, resp) ==
    LET r == EnsureToken(a, ex)
    IN  IF ~Truthy(r.api.token)
        THEN Outcome(r.api, r.exchanges, <<>>, PyBool(FALSE), FALSE)
        ELSE IF ~CanFloat(temperature)
        THEN Outcome(r.api, r.exchanges, <<>>, PyNone, TRUE)
        ELSE Outcome(r.api, r.exchanges,
                     <<[method |-> "POST", path |-> "/rest/v1/control/",
                        auth |-> r.api.token,
                        json |-> [rooms |-> <<[id |-> room_id,
                                               targetTemperature |-> ToHundredths(temperature)]>>],
                        ok |-> resp.ok]>>,
                     PyBool(resp.ok), FALSE)

----------------------------------------------------------------------------
(* AdaxClimate *)

\* what one entity or platform call did
EntityOutcome(a, dev, r, rooms, raised, rerender) ==
    [api |-> a, device |-> dev, exchanges |-> r.exchanges, requests |-> r.requests,
     result |-> r.result, rooms |-> rooms, raised |-> raised, rerender |-> rerender]

\* f"Adax Element {self._room_id}"
DefaultName(room_id) ==
    PyStr("Adax Element " \o (IF room_id.t = "int" THEN ToString(room_id.v) ELSE "None"))

\* AdaxClimate.__init__ (self._room, never read again, is left out)
AdaxClimate_init(room) ==
    LET room_id == DictGet(room, "id", PyNone)
    IN  [room_id |-> room_id,
         name |-> DictGet(room, "name", DefaultName(room_id)),
         current_temperature |-> PyNone,
         target_temperature |-> PyNone,
         hvac_mode |-> HVAC_MODE_HEAT]

\* set_temperature that stores the target whatever the API call returned
AdaxClimate_set_temperature_IgnoresResult(dev, a, temperature, ex, resp) ==
    IF temperature = PyNone
    THEN EntityOutcome(a, dev, Outcome(a, <<>>, <<>>, PyNone, FALSE), PyNone, FALSE, FALSE)
    ELSE LET r == AdaxAPI_set_temperature(a, dev.room_id, temperature, ex, resp)
         IN  IF r.raised THEN EntityOutcome(r.api, dev, r, PyNone, TRUE, FALSE)
             ELSE EntityOutcome(r.api, [dev EXCEPT !.target_temperature = temperature],
                                r, PyNone, FALSE, TRUE)

\* AdaxClimate.set_temperature
AdaxClimate_set_temperature(dev, a, temperature, ex, resp) ==
    IF temperature = PyNone
    THEN EntityOutcome(a, dev, Outcome(a, <<>>, <<>>, PyNone, FALSE), PyNone, FALSE, FALSE)
    ELSE LET r == AdaxAPI_set_temperature(a, dev.room_id, temperature, ex, resp)
         IN  IF r.raised THEN EntityOutcome(r.api, dev, r, PyNone, TRUE, FALSE)
             ELSE IF Truthy(r.result)
             THEN EntityOutcome(r.api, [dev EXCEPT !.target_temperature = temperature],
                                r, PyNone, FALSE, TRUE)
             ELSE EntityOutcome(r.api, dev, r, PyNone, FALSE, FALSE)

\* the loop body without the `in room` tests: room.get(key, 0) alone
UpdateFrom_DefaultZero(dev, room) ==
    LET temperature == DictGet(room, "temperature", PyInt(0))
        targetTemperature == DictGet(room, "targetTemperature", PyInt(0))
    IN  IF ~CanFloat(temperature) THEN <<dev, TRUE>>
        ELSE LET d1 == [dev EXCEPT !.current_temperature = FromHundredths(temperature)]
             IN  IF ~CanFloat(targetTemperature) THEN <<d1, TRUE>>
                 ELSE <<[d1 EXCEPT !.target_temperature = FromHundredths(targetTemperature)], FALSE>>

\* the body of update's loop for the matching room: <<device, raised>>
UpdateFrom(dev, room) ==
    IF "temperature" \in DOMAIN room /\ ~CanFloat(room.temperature)
    THEN <<dev, TRUE>>
    ELSE LET d1 == IF "temperature" \in DOMAIN room
                   THEN [dev EXCEPT !.current_temperature = FromHundredths(room.temperature)]
                   ELSE dev
         IN  IF "targetTemperature" \in DOMAIN room /\ ~CanFloat(room.targetTemperature)
             THEN <<d1, TRUE>>
             ELSE IF "targetTemperature" \in DOMAIN room
             THEN <<[d1 EXCEPT !.target_temperature = FromHundredths(room.targetTemperature)], FALSE>>
             ELSE <<d1, FALSE>>

\* the loop without the id test: the first room is taken
UpdateLoop_AnyRoom(dev, rooms, i) ==
    IF i > Len(rooms) THEN <<dev, FALSE>>
    ELSE UpdateFrom(dev, rooms[i])

\* update's loop from index i: stops at the first room with the device's id
RECURSIVE UpdateLoop(_, _, _)
UpdateLoop(dev, rooms, i) ==
    IF i > Len(rooms) THEN <<dev, FALSE>>
    ELSE IF DictGet(rooms[i], "id", PyNone) = dev.room_id THEN UpdateFrom(dev, rooms[i])
    ELSE UpdateLoop(dev, rooms, i + 1)

\* AdaxClimate.update (iterating over a result that is no list raises)
update(dev, a, ex, resp) ==
    LET r == get_rooms(a, ex, resp)
    IN  IF r.result.t # "list" THEN EntityOutcome(r.api, dev, r, r.result, TRUE, FALSE)
        ELSE LET u == UpdateLoop(dev, r.result.v, 1)
             IN  EntityOutcome(r.api, u[1], r, r.result, u[2], FALSE)

----------------------------------------------------------------------------
(* setup_platform *)

\* the first room whose id is room_id, or None
RECURSIVE FindRoom(_, _, _)
FindRoom(rooms, room_id, i) ==
    IF i > Len(rooms) THEN PyNone
    ELSE IF DictGet(rooms[i], "id", PyNone) = room_id THEN rooms[i]
    ELSE FindRoom(rooms, room_id, i + 1)

\* bool() of a room dict or of None
RoomTruthy(room) == room # PyNone /\ DOMAIN room # {}

\* setup_platform: added tells whether add_entities was called
setup_platform(config, ex1, ex2, resp) ==
    LET token == config.token
        client_id == config.client_id
        client_password == config.client_password
        none == Outcome(NoObject, <<>>, <<>>, PyNone, FALSE)
    IN  IF ~Truthy(token) /\ (~Truthy(client_id) \/ ~Truthy(client_password))
        THEN [api |-> NoObject, entities |-> <<>>, added |-> FALSE, exchanges |-> <<>>,
              requests |-> <<>>, rooms |-> PyNone, raised |-> FALSE]
        ELSE LET c == IF Truthy(token) THEN AdaxAPI_init(token, PyNone, PyNone, ex1)
                      ELSE AdaxAPI_init(PyNone, client_id, client_password, ex1)
                 r == get_rooms(c.api, ex2, resp)
                 room_id == config.room_id
                 room_found == FindRoom(r.result.v, room_id, 1)
                 found == IF Truthy(room_id)
                          THEN IF RoomTruthy(room_found)
                               THEN <<AdaxClimate_init(room_found)>> ELSE <<>>
                          ELSE [i \in 1..Len(r.result.v) |-> AdaxClimate_init(r.result.v[i])]
             IN  [api |-> r.api,
                  entities |-> IF r.result.t = "list" THEN found ELSE <<>>,
                  added |-> r.result.t = "list",
                  exchanges |-> c.exchanges \o r.exchanges,
                  requests |-> r.requests, rooms |-> r.result,
                  raised |-> r.result.t # "list"]

----------------------------------------------------------------------------
(* State *)

\* the last call: operation, argument, network traffic, return value, rooms
\* fetched, exception, re-render signal, add_entities
Call(op, arg, o, rooms, rerender, added) ==
    [op |-> op, arg |-> arg, exchanges |-> o.exchanges, requests |-> o.requests,
     result |-> o.result, rooms |-> rooms, raised |-> o.raised,
     rerender |-> rerender, added |-> added]

NoCall == Call("none", PyNone, Outcome(NoObject, <<>>, <<>>, PyNone, FALSE), PyNone, FALSE, FALSE)

\* prev: operation and token exchanges of the client call made just before
\* the last one (entity and platform calls do not record it)
NoPrev == [op |-> "none", exchanges |-> <<>>]

Summary(c) == [op |-> c.op, exchanges |-> c.exchanges]

\* outcomes of an exchange the call does not perform are not enumerated
ExchangeChoices(a) == IF NeedsRefresh(a) THEN ExchangeOutcomes(a) ELSE {ExchangeFailed}

\* nor are responses to a request the call does not send
ResponseChoices(a, ex, responses) ==
    IF Truthy(EnsureToken(a, ex).api.token) THEN responses ELSE {ResponseFailed}

Init ==
    /\ api = NoObject
    /\ device = NoObject
    /\ entities = <<>>
    /\ call = NoCall
    /\ prev = NoPrev

\* AdaxAPI(token, client_id, client_password)
NewAdaxAPI ==
    /\ api = NoObject
    /\ call.op = "none"
    /\ \E token \in ConfigTokens, client_id \in ClientIds, client_password \in ClientPasswords :
         LET a == [token |-> token, client_id |-> client_id, client_password |-> client_password]
         IN  \E ex \in ExchangeChoices(a) :
               LET r == AdaxAPI_init(token, client_id, client_password, ex)
               IN  /\ api' = r.api
                   /\ call' = Call("init", PyNone, r, PyNone, FALSE, FALSE)
    /\ prev' = Summary(call)
    /\ UNCHANGED <<device, entities>>

\* api.refresh_token()
RefreshToken ==
    /\ api # NoObject
    /\ \E ex \in ExchangeOutcomes(api) :
         LET r == refresh_token(api, ex)
         IN  /\ api' = r.api
             /\ call' = Call("refresh_token", PyNone, r, PyNone, FALSE, FALSE)
    /\ prev' = Summary(call)
    /\ UNCHANGED <<device, entities>>

\* api.get_rooms()
GetRooms ==
    /\ api # NoObject
    /\ \E ex \in ExchangeChoices(api) :
         \E resp \in ResponseChoices(api, ex, ContentResponses) :
           LET r == get_rooms(api, ex, resp)
           IN  /\ api' = r.api
               /\ call' = Call("get_rooms", PyNone, r, PyNone, FALSE, FALSE)
    /\ prev' = Summary(call)
    /\ UNCHANGED <<device, entities>>

\* api.set_temperature(room_id, temperature)
ApiSetTemperature ==
    /\ api # NoObject
    /\ \E room_id \in RoomIdArgs, temperature \in Temperatures :
         \E ex \in ExchangeChoices(api) :
           \E resp \in ResponseChoices(api, ex, ControlResponses) :
             LET r == AdaxAPI_set_temperature(api, room_id, temperature, ex, resp)
             IN  /\ api' = r.api
                 /\ call' = Call("set_temperature", temperature, r, PyNone, FALSE, FALSE)
    /\ prev' = Summary(call)
    /\ UNCHANGED <<device, entities>>

\* AdaxClimate(api, room)
NewAdaxClimate ==
    /\ api # NoObject
    /\ device = NoObject
    /\ \E room \in Rooms :
         /\ device' = AdaxClimate_init(room)
         /\ call' = Call("new_climate", PyNone, Outcome(api, <<>>, <<>>, PyNone, FALSE),
                         PyNone, FALSE, FALSE)
    /\ prev' = NoPrev
    /\ UNCHANGED <<api, entities>>

\* device.update()
Update ==
    /\ device # NoObject
    /\ \E ex \in ExchangeChoices(api) :
         \E resp \in ResponseChoices(api, ex, ContentResponses) :
           LET r == update(device, api, ex, resp)
           IN  /\ api' = r.api
               /\ device' = r.device
               /\ call' = Call("update", PyNone, r, r.rooms, r.rerender, FALSE)
    /\ prev' = NoPrev
    /\ UNCHANGED entities

\* device.set_temperature(temperature=...)
SetTemperature ==
    /\ device # NoObject
    /\ \E temperature \in Temperatures :
         \E ex \in ExchangeChoices(api) :
           \E resp \in ResponseChoices(api, ex, ControlResponses) :
             LET r == AdaxClimate_set_temperature(device, api, temperature, ex, resp)
             IN  /\ api' = r.api
                 /\ device' = r.device
                 /\ call' = Call("set_target", temperature, r, PyNone, r.rerender, FALSE)
    /\ prev' = NoPrev
    /\ UNCHANGED entities

Configs ==
    [token : ConfigTokens, client_id : ClientIds, client_password : ClientPasswords,
     room_id : {PyNone} \cup RoomIdArgs]

\* setup_platform(hass, config, add_entities)
SetupPlatform ==
    /\ api = NoObject
    /\ call.op = "none"
    /\ \E config \in Configs :
         LET a1 == IF Truthy(config.token)
                   THEN [token |-> config.token, client_id |-> PyNone, client_password |-> PyNone]
                   ELSE [token |-> PyNone, client_id |-> config.client_id,
                         client_password |-> config.client_password]
         IN  \E ex1 \in ExchangeChoices(a1) :
               LET a2 == EnsureToken(a1, ex1).api
               IN  \E ex2 \in ExchangeChoices(a2) :
                     \E resp \in ResponseChoices(a2, ex2, ContentResponses) :
                       LET r == setup_platform(config, ex1, ex2, resp)
                       IN  /\ api' = r.api
                           /\ entities' = r.entities
                           /\ call' = [op |-> "setup_platform", arg |-> config,
                                       exchanges |-> r.exchanges, requests |-> r.requests,
                                       result |-> PyNone, rooms |-> r.rooms,
                                       raised |-> r.raised, rerender |-> FALSE,
                                       added |-> r.added]
    /\ prev' = NoPrev
    /\ UNCHANGED device

NextClient == NewAdaxAPI \/ RefreshToken \/ GetRooms \/ ApiSetTemperature

NextDevice == NewAdaxAPI \/ NewAdaxClimate \/ Update \/ SetTemperature

NextDiscovery == SetupPlatform

Next == NextClient \/ NewAdaxClimate \/ Update \/ SetTemperature \/ SetupPlatform

\* direct use of the API client
SpecClient == Init /\ [][NextClient]_vars

\* one entity on a client
SpecDevice == Init /\ [][NextDevice]_vars

\* platform set-up
SpecDiscovery == Init /\ [][NextDiscovery]_vars

Spec == Init /\ [][Next]_vars

----------------------------------------------------------------------------
(* Properties *)

HasCredentials(a) == Truthy(a.client_id) /\ Truthy(a.client_password)

IsApiCall(op) == op \in {"get_rooms", "set_temperature"}

\* rooms holds an entry with this id
HasRoom(rooms, id) == \E i \in 1..Len(rooms) : DictGet(rooms[i], "id", PyNone) = id

\* the first entry of rooms with this id
FirstRoom(rooms, id) ==
    rooms[CHOOSE i \in 1..Len(rooms) :
            /\ DictGet(rooms[i], "id", PyNone) = id
            /\ \A j \in 1..(i - 1) : DictGet(rooms[j], "id", PyNone) # id]

\* the entry carries the field with a numeric value / with a non-numeric one
Numeric(room, key) == key \in DOMAIN room /\ room[key].t \in {"int", "float"}
NonNumeric(room, key) == key \in DOMAIN room /\ room[key].t \notin {"int", "float"}

\* C1: on a client without token, client_id and client_password, get_rooms
\* returns the empty list and performs neither a token exchange nor a
\* content request.
C1_NoCredentialsNoNetwork ==
    (/\ api # NoObject
     /\ call.op = "get_rooms"
     /\ ~Truthy(api.token) /\ ~Truthy(api.client_id) /\ ~Truthy(api.client_password))
    => /\ call.result = PyList(<<>>)
       /\ call.exchanges = <<>>
       /\ call.requests = <<>>
       /\ ~call.raised

\* a second get_rooms in a row on a client that holds nothing
C1_Witness ==
    /\ api # NoObject
    /\ call.op = "get_rooms" /\ prev.op = "get_rooms"
    /\ api.token = PyNone /\ api.client_id = PyNone /\ api.client_password = PyNone
    /\ call.result = PyList(<<>>)

\* C2: get_rooms called right after a refresh_token whose exchange succeeded
\* sends one content request, whose bearer token is the access token of that
\* exchange, and performs no further exchange.
C2_BearerIsExchangedToken ==
    (/\ prev.op = "refresh_token"
     /\ prev.exchanges[1].ok
     /\ call.op = "get_rooms")
    => /\ call.exchanges = <<>>
       /\ Len(call.requests) = 1
       /\ call.requests[1].method = "GET"
       /\ call.requests[1].path = "/rest/v1/content/"
       /\ call.requests[1].auth = prev.exchanges[1].access_token

\* refresh_token obtained tokC, and the content request that followed carried it
C2_Witness ==
    /\ prev.op = "refresh_token"
    /\ prev.exchanges[1].ok
    /\ prev.exchanges[1].access_token = PyStr("tokC")
    /\ call.op = "get_rooms"
    /\ Len(call.requests) = 1
    /\ call.requests[1].auth = PyStr("tokC")

\* C3: a poll whose room list holds no entry with the device's room id
\* leaves the whole device (current and target temperature, mode) as it was
\* and raises nothing.
C3_AbsentRoomLeavesDevice ==
    [][(/\ call'.op = "update"
        /\ call'.rooms.t = "list"
        /\ ~HasRoom(call'.rooms.v, device.room_id))
       => /\ device' = device
          /\ ~call'.raised]_vars

\* a poll of other rooms only, on a device that holds a temperature
C3_Witness ==
    /\ call.op = "update"
    /\ call.rooms.t = "list"
    /\ call.rooms.v # <<>>
    /\ ~HasRoom(call.rooms.v, device.room_id)
    /\ device.current_temperature # PyNone
    /\ ~call.raised

\* C4 as stated: after a poll that returns normally and whose room list
\* holds an entry with the device's id, current and target temperature are
\* both that entry's wire values divided by 100.
C4_BothOverwritten ==
    [][(/\ call'.op = "update"
        /\ ~call'.raised
        /\ call'.rooms.t = "list"
        /\ HasRoom(call'.rooms.v, device.room_id))
       => \E i \in 1..Len(call'.rooms.v) :
            LET room == call'.rooms.v[i]
            IN  /\ DictGet(room, "id", PyNone) = device.room_id
                /\ Numeric(room, "temperature")
                /\ Numeric(room, "targetTemperature")
                /\ device'.current_temperature = PyFloat(room.temperature.v, 100)
                /\ device'.target_temperature = PyFloat(room.targetTemperature.v, 100)]_vars

\* C4 amended: the poll uses the first entry with the device's id; the
\* current temperature becomes temperature/100 exactly when that entry has a
\* numeric temperature, the target temperature becomes targetTemperature/100
\* exactly when it has a numeric targetTemperature and its temperature is
\* absent or numeric; otherwise the value is kept.  A non-numeric value ends
\* the poll with an exception at that field.
C4_PresentFieldsOverwritten ==
    [][(/\ call'.op = "update"
        /\ call'.rooms.t = "list"
        /\ HasRoom(call'.rooms.v, device.room_id))
       => LET room == FirstRoom(call'.rooms.v, device.room_id)
          IN  /\ device'.current_temperature =
                   IF Numeric(room, "temperature")
                   THEN PyFloat(room.temperature.v, 100)
                   ELSE device.current_temperature
              /\ device'.target_temperature =
                   IF Numeric(room, "targetTemperature") /\ ~NonNumeric(room, "temperature")
                   THEN PyFloat(room.targetTemperature.v, 100)
                   ELSE device.target_temperature
              /\ device'.room_id = device.room_id
              /\ device'.name = device.name
              /\ device'.hvac_mode = device.hvac_mode
              /\ call'.raised <=> (NonNumeric(room, "temperature")
                                   \/ NonNumeric(room, "targetTemperature"))]_vars

\* the matching entry has no temperature: the target is 18.50 and the
\* current temperature is still the 21.37 of an earlier poll
C4_Witness ==
    /\ call.op = "update"
    /\ call.rooms.t = "list"
    /\ HasRoom(call.rooms.v, device.room_id)
    /\ "temperature" \notin DOMAIN FirstRoom(call.rooms.v, device.room_id)
    /\ device.current_temperature = PyFloat(2137, 100)
    /\ device.target_temperature = PyFloat(1850, 100)

\* C5: set_temperature on the entity stores the requested target and signals
\* a re-render exactly when a temperature is given and the control request
\* succeeded; without a temperature nothing is sent; otherwise the device is
\* unchanged and no re-render is signalled.
C5_SetTargetOnSuccessOnly ==
    [][(call'.op = "set_target")
       => LET success == /\ call'.arg # PyNone
                         /\ Len(call'.requests) = 1
                         /\ call'.requests[1].path = "/rest/v1/control/"
                         /\ call'.requests[1].ok
          IN  /\ call'.rerender <=> success
              /\ success => device' = [device EXCEPT !.target_temperature = call'.arg]
              /\ ~success => device' = device
              /\ call'.arg = PyNone => call'.requests = <<>> /\ call'.exchanges = <<>>]_vars

\* a control request failed and the device kept the target it had
C5_Witness ==
    /\ call.op = "set_target"
    /\ call.arg = PyFloat(171, 8)
    /\ Len(call.requests) = 1
    /\ ~call.requests[1].ok
    /\ ~call.rerender
    /\ device.target_temperature = PyFloat(2200, 100)

\* C6 as stated: refresh_token on a client without client_id and
\* client_password performs no token exchange.
C6_RefreshOnlyWithCredentials ==
    (/\ api # NoObject
     /\ call.op = "refresh_token"
     /\ ~HasCredentials(api))
    => call.exchanges = <<>>

\* C6 amended: refresh_token itself always performs one exchange, with the
\* client_id and client_password the client holds, even if it holds none;
\* the constructor, get_rooms and set_temperature perform an exchange only on
\* a client that has both.
C6_CallSitesGuardRefresh ==
    /\ (call.op = "refresh_token")
       => /\ Len(call.exchanges) = 1
          /\ call.exchanges[1].username = api.client_id
          /\ call.exchanges[1].password = api.client_password
    /\ (call.op \in {"init", "get_rooms", "set_temperature"} /\ call.exchanges # <<>>)
       => HasCredentials(api)

\* refresh_token on a client built from a token alone: one exchange, which
\* fails and clears the token
C6_Witness ==
    /\ api # NoObject
    /\ call.op = "refresh_token" /\ prev.op = "init"
    /\ api.client_id = PyNone /\ api.client_password = PyNone
    /\ Len(call.exchanges) = 1
    /\ api.token = PyNone

\* C7: given a room id, setup_platform hands over one device, bound to that
\* id, if the room list holds an entry with it, and no device otherwise;
\* never a device of another room.
C7_OnlyRequestedRoom ==
    (call.op = "setup_platform" /\ call.arg.room_id # PyNone)
    => LET found == call.rooms.t = "list" /\ HasRoom(call.rooms.v, call.arg.room_id)
       IN  /\ Len(entities) = (IF found THEN 1 ELSE 0)
           /\ \A i \in 1..Len(entities) : entities[i].room_id = call.arg.room_id

\* C8: no call ends with an exception.
C8_NothingRaises == ~call.raised

\* C9: on a client with client_id and client_password, get_rooms and
\* set_temperature perform at most one token exchange, one exactly when the
\* token is absent at the start, and after a failed one return []/False
\* with the token absent and without a content or control request.
C9_OneRefreshPerCall ==
    [][(/\ api # NoObject
        /\ IsApiCall(call'.op)
        /\ HasCredentials(api))
       => /\ Len(call'.exchanges) <= 1
          /\ Len(call'.exchanges) = 1 <=> ~Truthy(api.token)
          /\ (call'.exchanges # <<>> /\ ~call'.exchanges[1].ok)
             => /\ ~Truthy(api'.token)
                /\ call'.requests = <<>>
                /\ ~call'.raised
                /\ call'.result = IF call'.op = "get_rooms"
                                  THEN PyList(<<>>) ELSE PyBool(FALSE)]_vars

\* the exchange of one call failed and the next call made another, which
\* succeeded
C9_Witness ==
    /\ IsApiCall(prev.op)
    /\ Len(prev.exchanges) = 1 /\ ~prev.exchanges[1].ok
    /\ IsApiCall(call.op)
    /\ Len(call.exchanges) = 1 /\ call.exchanges[1].ok
    /\ Len(call.requests) = 1

\* C10: get_rooms and set_temperature on a client that holds a token leave
\* the token as it is, perform no token exchange and send that token,
\* whatever the HTTP outcome.
C10_TokenKept ==
    [][(/\ api # NoObject
        /\ IsApiCall(call'.op)
        /\ Truthy(api.token))
       => /\ api'.token = api.token
          /\ call'.exchanges = <<>>
          /\ \A i \in 1..Len(call'.requests) : call'.requests[i].auth = api.token]_vars

\* a content request failed, after another call, and the token is still held
C10_Witness ==
    /\ api # NoObject
    /\ call.op = "get_rooms" /\ IsApiCall(prev.op)
    /\ Len(call.requests) = 1 /\ ~call.requests[1].ok
    /\ Truthy(api.token)

====
